---- MODULE Spec2Model ----
(***************************************************************************)
(* Model of the libspf2 Go binding (src/spf2.go): the Client facade with   *)
(* its native server handle, Query with its per-call request and response  *)
(* handles, and Close.  Go statements of one goroutine are atomic steps;   *)
(* goroutines interleave between the statements that touch clientImpl.s   *)
(* or call into the C library.  The C library is the environment: each of  *)
(* its results is a nondeterministic choice.  Allocation failure of the    *)
(* C library (SPF_request_new returning NULL) is not modelled.             *)
(***************************************************************************)
EXTENDS Naturals, Sequences, FiniteSets

\* Number of Query/Close calls started in one behaviour.
MaxCalls == 3

\* The goroutines calling into one Client.
Procs == {1, 2}

\* ---------------------------------------------------------------- values

\* The Result constants, named by their libspf2 string form.
SPFResultINVALID == "(invalid)"
SPFResultPASS == "pass"
SPFResultFAIL == "fail"
SPFResultSOFTFAIL == "softfail"
SPFResultNEUTRAL == "neutral"
SPFResultPERMERROR == "permerror"
SPFResultTEMPERROR == "temperror"
SPFResultNONE == "none"

\* What SPF_response_result can report for a finished evaluation: the
\* engine sets one of the seven RFC results on every return path.
EngineResults ==
    {SPFResultPASS, SPFResultFAIL, SPFResultSOFTFAIL, SPFResultNEUTRAL,
     SPFResultPERMERROR, SPFResultTEMPERROR, SPFResultNONE}

\* error values: nil, errors.New("client already closed"), &spfError{stat}
ErrNil == "nil"
ErrClosed == "client already closed"
ErrSpf == "spfError"

\* the nil pointer, and the handle SPF_server_new returned
NULL == "nil"
Server == "server"

\* ---------------------------------------------------------------- net.IP

\* net.IP values handed to Query: byte slices of any length.
IPs ==
    { << >>,
      <<192, 0, 2, 1>>,
      <<0, 0, 0, 0, 0, 0, 0, 0, 0, 0, 255, 255, 192, 0, 2, 1>>,
      <<32, 1, 13, 184, 0, 0, 0, 0, 0, 0, 0, 0, 0, 0, 0, 1>>,
      <<192, 0, 2>>,
      <<192, 0, 2, 1, 7>> }

\* A well-formed address is 4 bytes (IPv4) or 16 bytes (IPv6).
WellFormed(ip) == Len(ip) = 4 \/ Len(ip) = 16

\* net.IP.To4: the 4-byte form, or nil (the empty slice).
To4(ip) ==
    IF Len(ip) = 4 THEN ip
    ELSE IF /\ Len(ip) = 16
            /\ \A i \in 1..10 : ip[i] = 0
            /\ ip[11] = 255
            /\ ip[12] = 255
         THEN SubSeq(ip, 13, 16)
         ELSE << >>

\* net.IP.String: "<nil>", dotted quad, IPv6 text, or "?" followed by hex.
IPString(ip) ==
    IF Len(ip) = 0 THEN [fmt |-> "<nil>", bytes |-> << >>]
    ELSE IF Len(To4(ip)) = 4 THEN [fmt |-> "dotted", bytes |-> To4(ip)]
    ELSE IF Len(ip) # 16 THEN [fmt |-> "?hex", bytes |-> ip]
    ELSE [fmt |-> "ipv6", bytes |-> ip]

\* The request's client address before a setter stored one.
Unset == [fam |-> 0, bytes |-> << >>]

\* SPF_request_set_ipv4_str / SPF_request_set_ipv6_str: inet_pton of the
\* text for the family; the address stored in the request, or Unset when
\* the text does not parse (stat != SPF_E_SUCCESS).
NativeSetIPv4Str(str) ==
    IF str.fmt = "dotted" THEN [fam |-> 4, bytes |-> str.bytes] ELSE Unset

NativeSetIPv6Str(str) ==
    IF str.fmt = "ipv6" THEN [fam |-> 6, bytes |-> str.bytes] ELSE Unset

\* request.setIpAddr: the setter is chosen by ip.To4() != nil.
SetIpAddrNative(ip) ==
    IF To4(ip) # << >> THEN NativeSetIPv4Str(IPString(ip))
    ELSE NativeSetIPv6Str(IPString(ip))

SetIpAddrErrIgnored(ip) == ErrNil

\* request.setIpAddr's return value: stat != SPF_E_SUCCESS is an error.
SetIpAddrErr(ip) == IF SetIpAddrNative(ip) = Unset THEN ErrSpf ELSE ErrNil

\* ---------------------------------------------------------------- state

VARIABLES
    s,              \* clientImpl.s: Server or NULL
    serverFrees,    \* SPF_server_free calls made on the server handle
    freedUse,       \* the freed handle was passed to SPF_request_new
    liveReq,        \* request handles allocated and not freed
    liveResp,       \* response handles allocated and not freed
    pc,             \* each goroutine's position
    cur,            \* each goroutine's call in progress
    last,           \* the call that returned last
    closeReturned,  \* some Close call has returned
    closes,         \* Close calls that have returned
    calls           \* calls started

vars ==
    <<s, serverFrees, freedUse, liveReq, liveResp, pc, cur, last,
      closeReturned, closes, calls>>

\* A call's record before anything happened in it.
Blank ==
    [kind |-> "none", ip |-> << >>, afterClose |-> FALSE, envOk |-> FALSE,
     queried |-> FALSE, native |-> 0, req |-> NULL, reqAllocd |-> 0,
     reqFreed |-> 0, resp |-> NULL, respDeferred |-> FALSE,
     respAllocd |-> 0, respFreed |-> 0, engine |-> "-", addr |-> Unset,
     result |-> "-", err |-> "-"]

\* NewClient: client.s = SPF_server_new(...)
Init ==
    /\ s = Server
    /\ serverFrees = 0
    /\ freedUse = FALSE
    /\ liveReq = 0
    /\ liveResp = 0
    /\ pc = [p \in Procs |-> "idle"]
    /\ cur = [p \in Procs |-> Blank]
    /\ last = Blank
    /\ closeReturned = FALSE
    /\ closes = 0
    /\ calls = 0

\* ---------------------------------------------------------------- Query

\* The Result Query returns when request.query reports an error.
QueryErrResultInvalid == SPFResultINVALID

QueryErrResult == SPFResultNONE

\* Query without its s.s == nil test.
QueryStartUnchecked(p) ==
    /\ pc[p] = "idle"
    /\ calls < MaxCalls
    /\ calls' = calls + 1
    /\ \E ip \in IPs :
        cur' = [cur EXCEPT ![p] =
                   [Blank EXCEPT !.kind = "Query", !.ip = ip,
                                 !.afterClose = closeReturned]]
    /\ pc' = [pc EXCEPT ![p] = "new"]
    /\ UNCHANGED <<s, serverFrees, freedUse, liveReq, liveResp, last,
                   closeReturned, closes>>

\* Query, entry: if s.s == nil, return INVALID, "client already closed".
QueryStart(p) ==
    /\ pc[p] = "idle"
    /\ calls < MaxCalls
    /\ calls' = calls + 1
    /\ \E ip \in IPs :
        LET c == [Blank EXCEPT !.kind = "Query", !.ip = ip,
                               !.afterClose = closeReturned]
        IN  IF s = NULL
            THEN /\ last' = [c EXCEPT !.result = SPFResultINVALID,
                                      !.err = ErrClosed]
                 /\ UNCHANGED <<pc, cur>>
            ELSE /\ cur' = [cur EXCEPT ![p] = c]
                 /\ pc' = [pc EXCEPT ![p] = "new"]
                 /\ UNCHANGED last
    /\ UNCHANGED <<s, serverFrees, freedUse, liveReq, liveResp,
                   closeReturned, closes>>

\* newRequest: r.r = SPF_request_new(s.s); defer req.free().  The handle
\* passed is s.s as it is now or, the read racing with Close's write, the
\* handle Query saw at its entry test.
NewRequest(p) ==
    /\ pc[p] = "new"
    /\ \E h \in {s, Server} :
        freedUse' = (freedUse \/ (h # NULL /\ serverFrees > 0))
    /\ liveReq' = liveReq + 1
    /\ cur' = [cur EXCEPT ![p].req = "request", ![p].reqAllocd = 1,
                          ![p].native = @ + 1]
    /\ pc' = [pc EXCEPT ![p] = "envfrom"]
    /\ UNCHANGED <<s, serverFrees, liveResp, last, closeReturned, closes,
                   calls>>

\* req.setEnvFrom(host): SPF_request_set_env_from accepts or rejects.
SetEnvFrom(p) ==
    /\ pc[p] = "envfrom"
    /\ \E accepted \in BOOLEAN :
        IF accepted
        THEN /\ cur' = [cur EXCEPT ![p].envOk = TRUE, ![p].native = @ + 1]
             /\ pc' = [pc EXCEPT ![p] = "ipaddr"]
        ELSE /\ cur' = [cur EXCEPT ![p].native = @ + 1,
                                   ![p].result = SPFResultINVALID,
                                   ![p].err = ErrSpf]
             /\ pc' = [pc EXCEPT ![p] = "ret"]
    /\ UNCHANGED <<s, serverFrees, freedUse, liveReq, liveResp, last,
                   closeReturned, closes, calls>>

\* req.setIpAddr(ip): on error return INVALID, err.
SetIpAddr(p) ==
    /\ pc[p] = "ipaddr"
    /\ IF SetIpAddrErr(cur[p].ip) = ErrNil
       THEN /\ cur' = [cur EXCEPT ![p].addr = SetIpAddrNative(cur[p].ip),
                                  ![p].native = @ + 1]
            /\ pc' = [pc EXCEPT ![p] = "query"]
       ELSE /\ cur' = [cur EXCEPT ![p].native = @ + 1,
                                  ![p].result = SPFResultINVALID,
                                  ![p].err = SetIpAddrErr(cur[p].ip)]
            /\ pc' = [pc EXCEPT ![p] = "ret"]
    /\ UNCHANGED <<s, serverFrees, freedUse, liveReq, liveResp, last,
                   closeReturned, closes, calls>>

\* req.query() and what Query makes of it.  SPF_request_query_mailfrom
\* returns stat and fills the response out-parameter; request.query
\* returns (nil, err) when stat != SPF_E_SUCCESS, dropping the response.
RequestQuery(p) ==
    /\ pc[p] = "query"
    /\ \E success \in BOOLEAN, filled \in BOOLEAN, res \in EngineResults :
        /\ success => filled
        /\ liveResp' = liveResp + (IF filled THEN 1 ELSE 0)
        /\ IF success
           THEN cur' = [cur EXCEPT ![p].queried = TRUE,
                                   ![p].engine = res,
                                   ![p].respAllocd = 1,
                                   ![p].resp = "response",
                                   ![p].respDeferred = TRUE,
                                   ![p].native = @ + 2,
                                   ![p].result = res,
                                   ![p].err = ErrNil]
           ELSE cur' = [cur EXCEPT ![p].queried = TRUE,
                                   ![p].engine = IF filled THEN res ELSE "-",
                                   ![p].respAllocd = IF filled THEN 1 ELSE 0,
                                   ![p].native = @ + 1,
                                   ![p].result = QueryErrResult,
                                   ![p].err = ErrSpf]
    /\ pc' = [pc EXCEPT ![p] = "ret"]
    /\ UNCHANGED <<s, serverFrees, freedUse, liveReq, last, closeReturned,
                   closes, calls>>

\* response.free, deferred: SPF_response_free when r.r != nil
RespFreed(c) == IF c.respDeferred /\ c.resp # NULL THEN 1 ELSE 0

\* request.free, deferred: SPF_request_free when r.r != nil
ReqFreed(c) == IF c.req # NULL THEN 1 ELSE 0

\* Query returns: the deferred resp.free() and req.free() run.
QueryReturn(p) ==
    /\ pc[p] = "ret"
    /\ LET c == cur[p]
       IN  /\ liveResp' = liveResp - RespFreed(c)
           /\ liveReq' = liveReq - ReqFreed(c)
           /\ last' = [c EXCEPT !.respFreed = RespFreed(c),
                                !.reqFreed = ReqFreed(c),
                                !.resp = NULL,
                                !.req = NULL,
                                !.native = @ + RespFreed(c) + ReqFreed(c)]
    /\ cur' = [cur EXCEPT ![p] = Blank]
    /\ pc' = [pc EXCEPT ![p] = "idle"]
    /\ UNCHANGED <<s, serverFrees, freedUse, closeReturned, closes, calls>>

\* ---------------------------------------------------------------- Close

\* Close without its s.s != nil test.
CloseStartUnchecked(p) ==
    /\ pc[p] = "idle"
    /\ calls < MaxCalls
    /\ calls' = calls + 1
    /\ cur' = [cur EXCEPT ![p] =
                  [Blank EXCEPT !.kind = "Close",
                                !.afterClose = closeReturned]]
    /\ pc' = [pc EXCEPT ![p] = "cfree"]
    /\ UNCHANGED <<s, serverFrees, freedUse, liveReq, liveResp, last,
                   closeReturned, closes>>

\* Close, entry: if s.s != nil { ... }, else return.
CloseStart(p) ==
    /\ pc[p] = "idle"
    /\ calls < MaxCalls
    /\ calls' = calls + 1
    /\ LET c == [Blank EXCEPT !.kind = "Close", !.afterClose = closeReturned]
       IN  IF s # NULL
           THEN /\ cur' = [cur EXCEPT ![p] = c]
                /\ pc' = [pc EXCEPT ![p] = "cfree"]
                /\ UNCHANGED <<last, closeReturned, closes>>
           ELSE /\ last' = c
                /\ closeReturned' = TRUE
                /\ closes' = closes + 1
                /\ UNCHANGED <<pc, cur>>
    /\ UNCHANGED <<s, serverFrees, freedUse, liveReq, liveResp>>

\* C.SPF_server_free(s.s): of s.s as it is now or, the read racing with
\* another Close's write, of the handle Close saw at its entry test.
CloseFree(p) ==
    /\ pc[p] = "cfree"
    /\ \E h \in {s, Server} :
        serverFrees' = serverFrees + (IF h # NULL THEN 1 ELSE 0)
    /\ cur' = [cur EXCEPT ![p].native = @ + 1]
    /\ pc' = [pc EXCEPT ![p] = "cnil"]
    /\ UNCHANGED <<s, freedUse, liveReq, liveResp, last, closeReturned,
                   closes, calls>>

\* s.s = nil, and Close returns
CloseNil(p) ==
    /\ pc[p] = "cnil"
    /\ s' = NULL
    /\ last' = cur[p]
    /\ cur' = [cur EXCEPT ![p] = Blank]
    /\ pc' = [pc EXCEPT ![p] = "idle"]
    /\ closeReturned' = TRUE
    /\ closes' = closes + 1
    /\ UNCHANGED <<serverFrees, freedUse, liveReq, liveResp, calls>>

\* ---------------------------------------------------------------- specs

Step(p) ==
    \/ QueryStart(p)
    \/ NewRequest(p)
    \/ SetEnvFrom(p)
    \/ SetIpAddr(p)
    \/ RequestQuery(p)
    \/ QueryReturn(p)
    \/ CloseStart(p)
    \/ CloseFree(p)
    \/ CloseNil(p)

\* Any interleaving of the goroutines' calls.
Next == \E p \in Procs : Step(p)

Spec == Init /\ [][Next]_vars

\* One caller: each call runs to its return before the next starts.
SeqNext == Step(1)

SeqSpec == Init /\ [][SeqNext]_vars

AllIdle == \A p \in Procs : pc[p] = "idle"

\* ---------------------------------------------------------------- claims

\* C1: in every interleaving of concurrent Query and Close calls, the
\* server handle is never passed to SPF_request_new after it was freed,
\* and it is freed at most once.
C1_ConcurrentUseSafe == ~freedUse /\ serverFrees <= 1

\* C2: a Query whose engine evaluation ended in temperror or permerror
\* returns exactly that Result.  (The claim also asks for the error
\* context; the Result alone already decides it.)
C2_ErrorResultReturned ==
    (last.kind = "Query"
        /\ last.engine \in {SPFResultTEMPERROR, SPFResultPERMERROR})
    => last.result = last.engine

\* C3: a Query on an open Client, with the envelope-from accepted and a
\* client IP that is not a well-formed IPv4 or IPv6 address, returns
\* INVALID with a non-nil error; no such call ever starts the native
\* query, and no address is stored in the request for it.
C3_MalformedIPInvalid ==
    /\ (last.kind = "Query" /\ last.envOk /\ ~WellFormed(last.ip))
        => /\ last.result = SPFResultINVALID
           /\ last.err # ErrNil
           /\ ~last.queried
           /\ last.addr = Unset
    /\ \A p \in Procs :
        (cur[p].kind = "Query" /\ ~WellFormed(cur[p].ip))
        => (~cur[p].queried /\ cur[p].addr = Unset)

C3_Witness ==
    /\ last.kind = "Query"
    /\ last.envOk
    /\ ~WellFormed(last.ip)
    /\ last.result = SPFResultINVALID

\* C4: a Query that returns INVALID did not invoke the native query, and
\* a call that has invoked the native query never holds INVALID as its
\* return value.
C4_InvalidOnlyBeforeQuery ==
    /\ (last.kind = "Query" /\ last.result = SPFResultINVALID)
        => ~last.queried
    /\ \A p \in Procs : cur[p].queried => cur[p].result # SPFResultINVALID

C4_Witness ==
    /\ last.kind = "Query"
    /\ last.envOk
    /\ last.result = SPFResultINVALID
    /\ \E p \in Procs : cur[p].queried /\ cur[p].err = ErrSpf

\* C8: every Query frees the request handle it allocated exactly once and
\* every response handle the native query produced exactly once before it
\* returns; with no call in progress no request or response handle is
\* allocated.
C8_HandlesDiscarded ==
    /\ last.kind = "Query"
        => /\ last.reqFreed = last.reqAllocd
           /\ last.respFreed = last.respAllocd
    /\ AllIdle => (liveReq = 0 /\ liveResp = 0)

\* C9: once a Close has returned the Client stays closed (s.s is nil), and
\* every Query started after that returns INVALID with "client already
\* closed", having made no native call and allocated no request.
C9_ClosedStaysClosed ==
    /\ closeReturned => s = NULL
    /\ (last.kind = "Query" /\ last.afterClose)
        => /\ last.result = SPFResultINVALID
           /\ last.err = ErrClosed
           /\ last.native = 0
           /\ last.reqAllocd = 0
           /\ ~last.queried
    /\ \A p \in Procs : cur[p].kind = "Query" => ~cur[p].afterClose

C9_Witness ==
    /\ calls >= 3
    /\ closes >= 1
    /\ last.kind = "Query"
    /\ last.afterClose
    /\ last.err = ErrClosed

\* C10: with one caller, the server handle is freed by the first Close
\* and never again: a Close on an open Client makes the one
\* SPF_server_free call, every later Close makes no native call, and the
\* Client is closed (s.s is nil) after any Close has returned.
C10_CloseIdempotent ==
    /\ serverFrees <= 1
    /\ closes >= 1 => (serverFrees = 1 /\ s = NULL)
    /\ (closes = 0 /\ AllIdle) => (serverFrees = 0 /\ s = Server)
    /\ (last.kind = "Close" /\ last.afterClose) => last.native = 0
    /\ (last.kind = "Close" /\ ~last.afterClose) => last.native = 1

C10_Witness ==
    /\ closes >= 2
    /\ serverFrees = 1
    /\ last.kind = "Close"
    /\ last.afterClose

====
